---- MODULE Spec2Model ----
(***************************************************************************)
(* A model of ss2wp.py: the conversion of one Squarespace post page into   *)
(* a WordPress HTML fragment.  Text is modelled as sequences of            *)
(* one-character strings; markup delimiters of the serialized fragment     *)
(* ("<p", ">", "</p>", ...) are single tokens of the same sequences, which *)
(* is exact because the serializer escapes "<" and ">" inside text.        *)
(***************************************************************************)
EXTENDS Naturals, Sequences, FiniteSets, TLC

VARIABLES
    pc,             \* position of main()
    page,           \* the fetched post page (input)
    gallery,        \* the gallery page behind the gallery link (input)
    title,          \* main: title
    content,        \* main: content, the selected container (mutated in place)
    galleryImages,  \* main: gallery_images
    galleryDescription, \* main: gallery_description
    postName,       \* main: post_name
    prefix,         \* main: prefix
    attempts,       \* calls of download_image so far, in order
    files,          \* file names written into images_dir, in order
    warnings,       \* lines printed to stderr, in order
    outputHtml,     \* main: output_html
    written,        \* the text written to <post_name>.html, <<>> before
    rc              \* "running", "0" (return 0) or the uncaught exception

vars == <<pc, page, gallery, title, content, galleryImages, galleryDescription,
          postName, prefix, attempts, files, warnings, outputHtml, written, rc>>

-----------------------------------------------------------------------------
(* Bounds of the model *)

MaxNodes == 3
MaxOgLen == 11
MaxImages == 2
MaxGallery == 2

-----------------------------------------------------------------------------
(* Characters and strings *)

LowerSeq == <<"a","b","c","d","e","f","g","h","i","j","k","l","m",
              "n","o","p","q","r","s","t","u","v","w","x","y","z">>
UpperSeq == <<"A","B","C","D","E","F","G","H","I","J","K","L","M",
              "N","O","P","Q","R","S","T","U","V","W","X","Y","Z">>
Digits == <<"0","1","2","3","4","5","6","7","8","9">>

Range(s) == {s[i] : i \in DOMAIN s}

IsSpace(c) == c \in {" ", "\t", "\n", "\r"}
IsLowerAlnum(c) == c \in Range(LowerSeq) \cup Range(Digits) \cup {"_"}
IsWord(c) == c \in Range(LowerSeq) \cup Range(UpperSeq) \cup Range(Digits) \cup {"_"}

ToLower(c) ==
    IF c \in Range(UpperSeq)
    THEN LowerSeq[CHOOSE i \in DOMAIN UpperSeq : UpperSeq[i] = c]
    ELSE c

Lower(s) == [i \in DOMAIN s |-> ToLower(s[i])]

Replace(s, from, to) == [i \in DOMAIN s |-> IF s[i] = from THEN to ELSE s[i]]

Take(s, n) == SubSeq(s, 1, IF n < Len(s) THEN n ELSE Len(s))

DropLast(s, n) == IF Len(s) > n THEN SubSeq(s, 1, Len(s) - n) ELSE <<>>

RECURSIVE LStrip(_)
LStrip(s) == IF s # <<>> /\ IsSpace(Head(s)) THEN LStrip(Tail(s)) ELSE s

RECURSIVE RStrip(_)
RStrip(s) ==
    IF s # <<>> /\ IsSpace(s[Len(s)]) THEN RStrip(SubSeq(s, 1, Len(s) - 1)) ELSE s

Strip(s) == RStrip(LStrip(s))

RECURSIVE Flatten(_)
Flatten(ss) == IF ss = <<>> THEN <<>> ELSE Head(ss) \o Flatten(Tail(ss))

RECURSIVE Join(_, _)
Join(parts, sep) ==
    IF parts = <<>> THEN <<>>
    ELSE IF Len(parts) = 1 THEN parts[1]
    ELSE parts[1] \o sep \o Join(Tail(parts), sep)

RECURSIVE IntToStr(_)
IntToStr(n) ==
    IF n < 10 THEN <<Digits[n + 1]>>
    ELSE IntToStr(n \div 10) \o <<Digits[(n % 10) + 1]>>

StartsWith(s, p) == Len(s) >= Len(p) /\ SubSeq(s, 1, Len(p)) = p

\* all sequences over alphabet of length at most n
RECURSIVE SeqsUpTo(_, _)
SeqsUpTo(alphabet, n) ==
    IF n = 0 THEN {<<>>}
    ELSE LET shorter == SeqsUpTo(alphabet, n - 1)
         IN  shorter \cup {Append(s, c) : s \in {t \in shorter : Len(t) = n - 1},
                                          c \in alphabet}

-----------------------------------------------------------------------------
(* Program constants *)

OgSuffixLen == 10
PrefixCap == 10
PostNameCap == 15

DefaultTitle == <<"U","n","t","i","t","l","e","d"," ","P","o","s","t">>
DefaultPrefix == <<"i","m","a","g","e">>
DefaultPostName == <<"p","o","s","t">>
DefaultExt == <<".","j","p","g">>
GalleryPrefixHead == <<"g","a","l","l","e","r","y","_">>
SentinelText == <<"[","[","["," ","I","M","A","G","E"," ","]","]","]">>

-----------------------------------------------------------------------------
(* The document tree *)

TextNode(s) == [tag |-> "#text", attrs |-> <<>>, kids |-> <<>>, text |-> s]
Elem(tag, attrs, kids) == [tag |-> tag, attrs |-> attrs, kids |-> kids, text |-> <<>>]
NoContent == [tag |-> "#none", attrs |-> <<>>, kids |-> <<>>, text |-> <<>>]

HasAttr(node, name) == \E i \in DOMAIN node.attrs : node.attrs[i][1] = name

\* Tag.get(name): the value, or <<>> for None
GetAttr(node, name) ==
    IF HasAttr(node, name)
    THEN node.attrs[CHOOSE i \in DOMAIN node.attrs : node.attrs[i][1] = name][2]
    ELSE <<>>

\* attrs.pop(name, None)
PopAttr(attrs, name) == LET Keep(a) == a[1] # name IN SelectSeq(attrs, Keep)

RECURSIVE NodeAt(_, _)
NodeAt(node, path) ==
    IF path = <<>> THEN node ELSE NodeAt(node.kids[Head(path)], Tail(path))

RECURSIVE ReplaceAt(_, _, _)
ReplaceAt(node, path, new) ==
    IF path = <<>> THEN new
    ELSE [node EXCEPT !.kids[Head(path)] = ReplaceAt(@, Tail(path), new)]

\* Tag.find_all(tags): the paths of the matching descendants in document order
RECURSIVE FindFrom(_, _, _, _)
FindFrom(node, tags, path, i) ==
    IF i > Len(node.kids) THEN <<>>
    ELSE LET kid == node.kids[i]
             here == path \o <<i>>
         IN  (IF kid.tag \in tags THEN <<here>> ELSE <<>>)
             \o FindFrom(kid, tags, here, 1)
             \o FindFrom(node, tags, path, i + 1)

FindAll(node, tags) == FindFrom(node, tags, <<>>, 1)

\* Tag.text: the concatenated text of the descendants
RECURSIVE TextOf(_)
TextOf(node) ==
    IF node.tag = "#text" THEN node.text
    ELSE Flatten([i \in DOMAIN node.kids |-> TextOf(node.kids[i])])

VoidTags == {"img"}

SerializeAttrs(attrs) ==
    Flatten([i \in DOMAIN attrs |->
                <<" " \o attrs[i][1] \o "=", "\"">> \o attrs[i][2] \o <<"\"">>])

\* str(element)
RECURSIVE Serialize(_)
Serialize(node) ==
    IF node.tag = "#text" THEN node.text
    ELSE IF node.tag \in VoidTags
    THEN <<"<" \o node.tag>> \o SerializeAttrs(node.attrs) \o <<"/>">>
    ELSE <<"<" \o node.tag>> \o SerializeAttrs(node.attrs) \o <<">">>
         \o Flatten([i \in DOMAIN node.kids |-> Serialize(node.kids[i])])
         \o <<"</" \o node.tag \o ">">>

-----------------------------------------------------------------------------
(* parse_post *)

HeadingTags == {"h1", "h2"}

\* the container parse_post selects: article, else main, else body, else None
SelectContent(pg) ==
    IF "article" \in pg.containers THEN Elem("article", <<>>, pg.kids)
    ELSE IF "main" \in pg.containers THEN Elem("main", <<>>, pg.kids)
    ELSE IF "body" \in pg.containers THEN Elem("body", <<>>, pg.kids)
    ELSE NoContent

\* the texts of the page's h1/h2 elements in document order: those before the
\* container, then those inside it
HeadingTexts(pg) ==
    LET root == Elem("#document", <<>>, pg.kids)
        inside == FindAll(root, HeadingTags)
    IN  pg.headings \o [i \in DOMAIN inside |-> TextOf(NodeAt(root, inside[i]))]

\* og_title["content"][:-10].strip(), or <<>> when the tag or its content is missing
OgTitle(pg) ==
    IF pg.og.found /\ pg.og.content # <<>>
    THEN Strip(DropLast(pg.og.content, OgSuffixLen))
    ELSE <<>>

HeadingTitle(pg) ==
    LET hs == HeadingTexts(pg)
    IN  IF hs # <<>> /\ Strip(hs[1]) # <<>> THEN Strip(hs[1]) ELSE <<>>

\* the heading fallback of lines 33-36 left out
ParseTitle_NoHeadingFallback(pg) ==
    IF OgTitle(pg) = <<>> THEN DefaultTitle ELSE OgTitle(pg)

ParseTitle(pg) ==
    LET t1 == OgTitle(pg)
        t2 == IF t1 = <<>> THEN HeadingTitle(pg) ELSE t1
    IN  IF t2 = <<>> THEN DefaultTitle ELSE t2

-----------------------------------------------------------------------------
(* sanitize_title_prefix, sanitize_post_name *)

sanitize_title_prefix(t) ==
    LET p1 == Lower(Replace(Strip(t), " ", "_"))
        p2 == Take(SelectSeq(p1, IsLowerAlnum), PrefixCap)
    IN  IF p2 = <<>> THEN DefaultPrefix ELSE p2

IsNameChar(c) == IsWord(c) \/ c = "-"

sanitize_post_name(t) ==
    LET n1 == Replace(Strip(t), " ", "_")
        n2 == Take(SelectSeq(n1, IsNameChar), PostNameCap)
    IN  IF n2 = <<>> THEN DefaultPostName ELSE n2

-----------------------------------------------------------------------------
(* find_gallery_link, extract_gallery_images *)

GalleryMark == <<"/","g","a","l","l","e","r","y","#","/">>
BaseUrl == <<"h","t","t","p","s",":","/","/","x">>

Contains(s, p) ==
    \E i \in 1..(Len(s) + 1) :
        i + Len(p) - 1 <= Len(s) /\ SubSeq(s, i, i + Len(p) - 1) = p

EndsWith(s, p) == Len(s) >= Len(p) /\ SubSeq(s, Len(s) - Len(p) + 1, Len(s)) = p

\* the first index of c in s, or 0
IndexOf(s, c) ==
    IF \E i \in DOMAIN s : s[i] = c
    THEN CHOOSE i \in DOMAIN s : s[i] = c /\ \A j \in 1..(i - 1) : s[j] # c
    ELSE 0

\* the last index of c in s, or 0
LastIndexOf(s, c) ==
    IF \E i \in DOMAIN s : s[i] = c
    THEN CHOOSE i \in DOMAIN s : s[i] = c /\ \A j \in (i + 1)..Len(s) : s[j] # c
    ELSE 0

\* s.split(c, 1)[0]
BeforeFirst(s, c) == IF IndexOf(s, c) = 0 THEN s ELSE SubSeq(s, 1, IndexOf(s, c) - 1)

\* scheme://host of an absolute URL
Origin(url) ==
    LET start == IndexOf(url, ":") + 3
        rest == SubSeq(url, start, Len(url))
    IN  SubSeq(url, 1, start - 1) \o BeforeFirst(rest, "/")

\* urljoin(base, ref) for the references of the model: absolute ones are kept,
\* the others are paths from the root of the base's host
UrlJoin(base, ref) ==
    IF StartsWith(ref, <<"h","t","t","p">>) THEN ref ELSE Origin(base) \o ref

\* the absolute gallery URL, or <<>> for None
find_gallery_link(pg, base) ==
    LET Hit(h) == h # <<>> /\ Contains(h, GalleryMark)
        hits == SelectSeq(pg.hrefs, Hit)
    IN  IF hits = <<>> THEN <<>> ELSE UrlJoin(base, hits[1])

RECURSIVE LStripChar(_, _)
LStripChar(s, c) == IF s # <<>> /\ Head(s) = c THEN LStripChar(Tail(s), c) ELSE s

RECURSIVE RStripChar(_, _)
RStripChar(s, c) ==
    IF s # <<>> /\ s[Len(s)] = c THEN RStripChar(SubSeq(s, 1, Len(s) - 1), c) ELSE s

TrimSlashes(s) == RStripChar(LStripChar(s, "/"), "/")

\* urlparse(url).fragment
UrlFragment(url) ==
    IF IndexOf(url, "#") = 0 THEN <<>> ELSE SubSeq(url, IndexOf(url, "#") + 1, Len(url))

\* the project container extract_gallery_images works on, as an index into
\* the page's projects, or 0
SelectProject(gal, galleryUrl) ==
    LET target == TrimSlashes(UrlFragment(galleryUrl))
        Match(i) == EndsWith(TrimSlashes(gal.projects[i].dataUrl), target)
        Active(i) == gal.projects[i].active
        First(P(_)) ==
            IF \E i \in DOMAIN gal.projects : P(i)
            THEN CHOOSE i \in DOMAIN gal.projects :
                    P(i) /\ \A j \in 1..(i - 1) : ~P(j)
            ELSE 0
    IN  IF target # <<>> /\ First(Match) # 0 THEN First(Match) ELSE First(Active)

\* [images, description]
extract_gallery_images(gal, galleryUrl) ==
    LET k == SelectProject(gal, galleryUrl)
        none == [images |-> <<>>, description |-> <<>>]
    IN  IF k = 0 THEN none
        ELSE IF ~gal.projects[k].hasImageList THEN none
        ELSE LET HasSrc(s) == s # <<>>
                 srcs == SelectSeq(gal.projects[k].srcs, HasSrc)
             IN  [images |-> [i \in DOMAIN srcs |->
                                 BeforeFirst(UrlJoin(galleryUrl, srcs[i]), "?")],
                  description |-> gal.projects[k].description]

-----------------------------------------------------------------------------
(* download_image *)

\* os.path.splitext(p)[1]
SplitExt(p) ==
    LET sep == LastIndexOf(p, "/")
        dot == LastIndexOf(p, ".")
    IN  IF dot > sep /\ \E j \in (sep + 1)..(dot - 1) : p[j] # "."
        THEN SubSeq(p, dot, Len(p))
        ELSE <<>>

ImageExt(url) ==
    LET e == SplitExt(BeforeFirst(url, "?")) IN IF e = <<>> THEN DefaultExt ELSE e

\* f"{prefix}_{index}{ext}"
ImageFileName(url, pfx, index) == pfx \o <<"_">> \o IntToStr(index) \o ImageExt(url)

\* what one call can do: the request fails, the file cannot be written, or
\* the file is written
DownloadOutcomes == {"ok", "http_error", "write_error"}

Attempt(kind, url, pfx, index, outcome) ==
    [kind |-> kind, url |-> url, prefix |-> pfx, index |-> index, outcome |-> outcome]

\* the state of the images directory and of stderr after one guarded call
\* (try: download_image(...) except Exception: print(...))
GuardedDownload(st, url, pfx, index, outcome, kind) ==
    [st EXCEPT
        !.attempts = Append(@, Attempt(kind, url, pfx, index, outcome)),
        !.files = IF outcome = "ok" THEN Append(@, ImageFileName(url, pfx, index)) ELSE @,
        !.warnings = IF outcome = "ok" THEN @
                     ELSE Append(@, [kind |-> kind, url |-> url, cause |-> outcome])]

-----------------------------------------------------------------------------
(* process_images *)

\* root.new_tag("p") with string "[[[ IMAGE ]]]"
Placeholder == Elem("p", <<>>, <<TextNode(SentinelText)>>)

Front(path) == SubSeq(path, 1, Len(path) - 1)

\* lines 172-176 without the rule for a paragraph that holds only the image
ReplaceImage_ImageOnly(tree, path) == ReplaceAt(tree, path, Placeholder)

\* lines 169-176: the image at path, or its paragraph when the image is the
\* paragraph's only content, is replaced by the placeholder
ReplaceImage(tree, path) ==
    LET parent == NodeAt(tree, Front(path))
    IN  IF parent.tag = "p" /\ Len(parent.kids) = 1
        THEN ReplaceAt(tree, Front(path), Placeholder)
        ELSE ReplaceAt(tree, path, Placeholder)

\* the number of images with a source among the first n of the tree's images
SourcedUpTo(tree, imgs, n) ==
    Cardinality({j \in 1..n : GetAttr(NodeAt(tree, imgs[j]), "src") # <<>>})

\* one iteration of the loop of lines 157-176 for the i-th image; index is i,
\* as lines 156 and 165 count it
ImageStep(st, imgs, i, pfx, outcomes) ==
    LET src == GetAttr(NodeAt(st.tree, imgs[i]), "src")
        k == Len(st.attempts) + 1
        st1 == IF src # <<>>
               THEN GuardedDownload(st, src, pfx, i, outcomes[k], "image")
               ELSE st
    IN  [st1 EXCEPT !.tree = ReplaceImage(@, imgs[i])]

RECURSIVE ImageLoop(_, _, _, _, _)
ImageLoop(st, imgs, i, pfx, outcomes) ==
    IF i > Len(imgs) THEN st
    ELSE ImageLoop(ImageStep(st, imgs, i, pfx, outcomes), imgs, i + 1, pfx, outcomes)

\* process_images(soup, images_dir, prefix), the downloads ending as outcomes says
process_images(tree, pfx, outcomes) ==
    ImageLoop([tree |-> tree, attempts |-> <<>>, files |-> <<>>, warnings |-> <<>>],
              FindAll(tree, {"img"}), 1, pfx, outcomes)

SourcedImages(tree) ==
    LET imgs == FindAll(tree, {"img"}) IN SourcedUpTo(tree, imgs, Len(imgs))

-----------------------------------------------------------------------------
(* strip_paragraph_classes *)

RECURSIVE StripLoop(_, _, _)
StripLoop(tree, ps, i) ==
    IF i > Len(ps) THEN tree
    ELSE LET node == NodeAt(tree, ps[i])
         IN  StripLoop(ReplaceAt(tree, ps[i],
                                 [node EXCEPT !.attrs = PopAttr(@, "class")]),
                       ps, i + 1)

\* line 180 finding every element that may carry a class
strip_all_classes(tree) == StripLoop(tree, FindAll(tree, {"p", "div", "img"}), 1)

strip_paragraph_classes(tree) == StripLoop(tree, FindAll(tree, {"p"}), 1)

-----------------------------------------------------------------------------
(* build_html and the lead-image rule of main *)

AllowedTags == {"p", "ul", "ol", "pre", "blockquote", "h2", "h3", "h4", "h5", "h6"}

TitleHeading(t) == <<"<h1", ">">> \o t \o <<"</h1>">>

GallerySection(description) ==
    << <<"<hr", ">">>,
       <<"<h2", ">", "G","a","l","l","e","r","y", "</h2>">>,
       <<"<p", ">">> \o description \o <<"</p>">> >>

\* html_parts
HtmlParts(t, tree, description) ==
    LET found == FindAll(tree, AllowedTags)
    IN  <<TitleHeading(t)>>
        \o [i \in DOMAIN found |-> Serialize(NodeAt(tree, found[i]))]
        \o (IF description # <<>> THEN GallerySection(description) ELSE <<>>)

build_html(t, tree, description) == Join(HtmlParts(t, tree, description), <<"\n">>)

\* the text of the pattern between its two optional newlines
PlaceholderParagraph == Serialize(Placeholder)

MatchesAt(s, i, p) == i >= 1 /\ i + Len(p) - 1 <= Len(s) /\ SubSeq(s, i, i + Len(p) - 1) = p

\* re.sub(r"\n?<p>\[\[\[ IMAGE \]\]\]</p>\n?", "", s, count=1)
DropFirstPlaceholder(s) ==
    LET p == PlaceholderParagraph
        Starts(i) == MatchesAt(s, i, p) \/ (s[i] = "\n" /\ MatchesAt(s, i + 1, p))
    IN  IF \E i \in DOMAIN s : Starts(i)
        THEN LET i == CHOOSE i \in DOMAIN s : Starts(i) /\ \A j \in 1..(i - 1) : ~Starts(j)
                 b == IF s[i] = "\n" THEN i + 1 ELSE i
                 e == b + Len(p)
                 next == IF e <= Len(s) /\ s[e] = "\n" THEN e + 1 ELSE e
             IN  SubSeq(s, 1, i - 1) \o SubSeq(s, next, Len(s))
        ELSE s

-----------------------------------------------------------------------------
(* main: one action per step of lines 214-255 *)

Abort(error) == pc' = "aborted" /\ rc' = error

Warning(kind, url, cause) == [kind |-> kind, url |-> url, cause |-> cause]

\* line 249 with the post's own prefix
GalleryPrefix_Same(pfx) == pfx

\* line 249
GalleryPrefix(pfx) == GalleryPrefixHead \o pfx

\* line 216: fetch_page(args.url) returns the page or raises
FetchPage ==
    /\ pc = "fetch"
    /\ \/ pc' = "parse" /\ rc' = rc
       \/ Abort("HTTPError")
    /\ UNCHANGED <<page, gallery, title, content, galleryImages, galleryDescription,
                   postName, prefix, attempts, files, warnings, outputHtml, written>>

\* line 217
ParsePost ==
    /\ pc = "parse"
    /\ title' = ParseTitle(page)
    /\ content' = SelectContent(page)
    /\ pc' = "gallery"
    /\ UNCHANGED <<page, gallery, galleryImages, galleryDescription, postName, prefix,
                   attempts, files, warnings, outputHtml, written, rc>>

\* lines 219-230 with an except clause that logs and raises again
FindGallery_Reraise ==
    /\ pc = "gallery"
    /\ LET link == find_gallery_link(page, BaseUrl)
       IN  \/ /\ link = <<>>
              /\ pc' = "mkdir" /\ rc' = rc
              /\ UNCHANGED <<galleryImages, galleryDescription, warnings>>
           \/ /\ link # <<>>
              /\ galleryImages' = extract_gallery_images(gallery, link).images
              /\ galleryDescription' = extract_gallery_images(gallery, link).description
              /\ pc' = "mkdir" /\ rc' = rc
              /\ UNCHANGED warnings
           \/ /\ link # <<>>
              /\ warnings' = Append(warnings, Warning("gallery_page", link, "http_error"))
              /\ Abort("HTTPError")
              /\ UNCHANGED <<galleryImages, galleryDescription>>
    /\ UNCHANGED <<page, gallery, title, content, postName, prefix, attempts, files,
                   outputHtml, written>>

\* lines 219-230
FindGallery ==
    /\ pc = "gallery"
    /\ LET link == find_gallery_link(page, BaseUrl)
       IN  \/ /\ link = <<>>
              /\ UNCHANGED <<galleryImages, galleryDescription, warnings>>
           \/ /\ link # <<>>
              /\ galleryImages' = extract_gallery_images(gallery, link).images
              /\ galleryDescription' = extract_gallery_images(gallery, link).description
              /\ UNCHANGED warnings
           \/ /\ link # <<>>
              /\ warnings' = Append(warnings, Warning("gallery_page", link, "http_error"))
              /\ UNCHANGED <<galleryImages, galleryDescription>>
    /\ pc' = "mkdir"
    /\ UNCHANGED <<page, gallery, title, content, postName, prefix, attempts, files,
                   outputHtml, written, rc>>

\* lines 232-236: the post directory or the images directory may fail to be made
MakeDirs ==
    /\ pc = "mkdir"
    /\ postName' = sanitize_post_name(title)
    /\ \/ pc' = "images" /\ prefix' = sanitize_title_prefix(title) /\ rc' = rc
       \/ Abort("OSError") /\ prefix' = prefix
    /\ UNCHANGED <<page, gallery, title, content, galleryImages, galleryDescription,
                   attempts, files, warnings, outputHtml, written>>

\* line 237
ProcessImages ==
    /\ pc = "images"
    /\ \/ /\ content = NoContent
          /\ Abort("AttributeError")
          /\ UNCHANGED <<content, attempts, files, warnings>>
       \/ /\ content # NoContent
          /\ \E outcomes \in [1..SourcedImages(content) -> DownloadOutcomes] :
                LET st == process_images(content, prefix, outcomes)
                IN  /\ content' = st.tree
                    /\ attempts' = attempts \o st.attempts
                    /\ files' = files \o st.files
                    /\ warnings' = warnings \o st.warnings
          /\ pc' = "strip"
          /\ rc' = rc
    /\ UNCHANGED <<page, gallery, title, galleryImages, galleryDescription, postName,
                   prefix, outputHtml, written>>

\* line 238
StripParagraphClasses ==
    /\ pc = "strip"
    /\ content' = strip_paragraph_classes(content)
    /\ pc' = "build"
    /\ UNCHANGED <<page, gallery, title, galleryImages, galleryDescription, postName,
                   prefix, attempts, files, warnings, outputHtml, written, rc>>

\* line 240
BuildHtml ==
    /\ pc = "build"
    /\ outputHtml' = build_html(title, content, galleryDescription)
    /\ pc' = "resub"
    /\ UNCHANGED <<page, gallery, title, content, galleryImages, galleryDescription,
                   postName, prefix, attempts, files, warnings, written, rc>>

\* line 243
DropLeadPlaceholder ==
    /\ pc = "resub"
    /\ outputHtml' = DropFirstPlaceholder(outputHtml)
    /\ pc' = "write"
    /\ UNCHANGED <<page, gallery, title, content, galleryImages, galleryDescription,
                   postName, prefix, attempts, files, warnings, written, rc>>

\* lines 245-247: write_text writes the file or raises
WriteOutput ==
    /\ pc = "write"
    /\ \/ written' = outputHtml /\ pc' = "gallery_dl" /\ rc' = rc
       \/ Abort("OSError") /\ written' = written
    /\ UNCHANGED <<page, gallery, title, content, galleryImages, galleryDescription,
                   postName, prefix, attempts, files, warnings, outputHtml>>

RECURSIVE GalleryLoop(_, _, _, _, _)
GalleryLoop(st, urls, idx, pfx, outcomes) ==
    IF idx > Len(urls) THEN st
    ELSE GalleryLoop(GuardedDownload(st, urls[idx], pfx, idx, outcomes[idx],
                                     "gallery_image"),
                     urls, idx + 1, pfx, outcomes)

\* lines 248-254
GalleryDownloads ==
    /\ pc = "gallery_dl"
    /\ \E outcomes \in [1..Len(galleryImages) -> DownloadOutcomes] :
          LET st == GalleryLoop([attempts |-> attempts, files |-> files,
                                 warnings |-> warnings],
                                galleryImages, 1, GalleryPrefix(prefix), outcomes)
          IN  /\ attempts' = st.attempts
              /\ files' = st.files
              /\ warnings' = st.warnings
    /\ pc' = "return"
    /\ UNCHANGED <<page, gallery, title, content, galleryImages, galleryDescription,
                   postName, prefix, outputHtml, written, rc>>

\* line 255
Return ==
    /\ pc = "return"
    /\ pc' = "done"
    /\ rc' = "0"
    /\ UNCHANGED <<page, gallery, title, content, galleryImages, galleryDescription,
                   postName, prefix, attempts, files, warnings, outputHtml, written>>

Next ==
    \/ FetchPage
    \/ ParsePost
    \/ FindGallery
    \/ MakeDirs
    \/ ProcessImages
    \/ StripParagraphClasses
    \/ BuildHtml
    \/ DropLeadPlaceholder
    \/ WriteOutput
    \/ GalleryDownloads
    \/ Return

-----------------------------------------------------------------------------
(* Inputs *)

HiText == <<"H","i">>
MyTrip == <<"M","y"," ","T","r","i","p">>
SiteSuffix == <<" ","-"," ","M","y"," ","B","l","o","g">>
ImgUrl == <<"h","t","t","p","s",":","/","/","x","/","a",".","p","n","g">>
ImgUrlQuery == <<"h","t","t","p","s",":","/","/","x",".","y","/","a","?","v","=","1",".","2">>

LeafNodes ==
    {TextNode(HiText), Elem("img", <<>>, <<>>), Elem("img", << <<"src", ImgUrl>> >>, <<>>)}

ElemKinds ==
    {[tag |-> "p", attrs |-> <<>>],
     [tag |-> "p", attrs |-> << <<"class", <<"c">>>>, <<"id", <<"i">>>> >>],
     [tag |-> "blockquote", attrs |-> <<>>],
     [tag |-> "div", attrs |-> << <<"class", <<"c">>>> >>]}

\* the parser merges neighbouring text into one text node
Mergeable(t, f) == t.tag = "#text" /\ f # <<>> /\ f[1].tag = "#text"

\* the forests of exactly n nodes
RECURSIVE ForestsOf(_)
ForestsOf(n) ==
    IF n = 0 THEN {<<>>}
    ELSE UNION {
            LET trees == (IF k = 1 THEN LeafNodes ELSE {})
                         \cup {Elem(e.tag, e.attrs, f) : e \in ElemKinds, f \in ForestsOf(k - 1)}
            IN  {<<t>> \o f : t \in trees, f \in {g \in ForestsOf(n - k) : TRUE}}
            : k \in 1..n }

Forests == {f \in UNION {ForestsOf(n) : n \in 0..MaxNodes} :
               \A i \in 1..(Len(f) - 1) : ~Mergeable(f[i], SubSeq(f, i + 1, Len(f)))}

NoOg == [found |-> FALSE, content |-> <<>>]
Og(c) == [found |-> TRUE, content |-> c]

Page(og, headings, containers, kids, hrefs) ==
    [og |-> og, headings |-> headings, containers |-> containers, kids |-> kids,
     hrefs |-> hrefs]

Project(dataUrl, active, hasImageList, srcs, description) ==
    [dataUrl |-> dataUrl, active |-> active, hasImageList |-> hasImageList,
     srcs |-> srcs, description |-> description]

NoGallery == [projects |-> <<>>]

\* the post of the specification's scenario: a paragraph and an image
ScenarioKids == <<Elem("p", <<>>, <<TextNode(HiText)>>), Elem("img", << <<"src", ImgUrl>> >>, <<>>)>>

Start(pg, gal, at) ==
    /\ pc = at
    /\ page = pg
    /\ gallery = gal
    /\ title = <<>>
    /\ content = NoContent
    /\ galleryImages = <<>>
    /\ galleryDescription = <<>>
    /\ postName = <<>>
    /\ prefix = <<>>
    /\ attempts = <<>>
    /\ files = <<>>
    /\ warnings = <<>>
    /\ outputHtml = <<>>
    /\ written = <<>>
    /\ rc = "running"

(* the whole run *)

AboutHref == <<"/","a","b","o","u","t">>
GalleryHref == <<"/","g","a","l","l","e","r","y","#","/","t","/">>
GallerySrc == <<"/","g",".","j","p","g","?","w","=","1">>

MainKids == {<<>>, ScenarioKids, <<Elem("p", << <<"class", <<"c">>>> >>, <<Elem("img", <<>>, <<>>)>>)>>}

MainPages ==
    {Page(og, hs, cs, IF cs = {} THEN <<>> ELSE kids, hrefs) :
        og \in {NoOg, Og(MyTrip \o SiteSuffix)},
        hs \in {<<>>, <<HiText>>},
        cs \in {{"article", "body"}, {"main"}, {"body"}, {}},
        kids \in MainKids,
        hrefs \in {<<>>, <<AboutHref>>, <<AboutHref, GalleryHref>>}}

GalleryPages ==
    {NoGallery}
    \cup {[projects |-> <<Project(<<"/","u">>, FALSE, TRUE, <<GallerySrc>>, HiText),
                          Project(d[1], d[2], l, srcs, ds)>>] :
            d \in {<< <<"/","t","/">>, FALSE>>, << <<"/","v">>, TRUE>>, << <<"/","v">>, FALSE>>},
            l \in BOOLEAN,
            srcs \in SeqsUpTo({<<>>, GallerySrc}, MaxGallery),
            ds \in {<<>>, HiText}}

Init ==
    \E pg \in MainPages :
        \E gal \in (IF find_gallery_link(pg, BaseUrl) = <<>> THEN {NoGallery} ELSE GalleryPages) :
            Start(pg, gal, "fetch")

Spec == Init /\ [][Next]_vars

-----------------------------------------------------------------------------
(* parse_post and the two sanitizers on their own: the metadata titles are
   all strings of letters and blanks up to MaxOgLen, and the scenario's *)

OgContents ==
    SeqsUpTo({"a", " "}, MaxOgLen) \cup {MyTrip, MyTrip \o SiteSuffix}

\* the texts of the h1/h2 elements of the page: none, blank ones, ones with text
TitleHeadings ==
    {<<>>, << <<>> >>, << <<" ">> >>, <<HiText>>, <<HiText, <<" ">>>>, << <<" ">>, HiText>>,
     << <<" ", "H", "i", " ">>, HiText>>}

TitlePages ==
    {Page(og, hs, {"article"}, ScenarioKids, <<>>) :
        og \in {NoOg} \cup {Og(c) : c \in OgContents},
        hs \in TitleHeadings}

InitTitle == \E pg \in TitlePages : Start(pg, NoGallery, "parse")

\* lines 232, 236 and 240 applied to the parsed title
DeriveNames ==
    /\ pc = "gallery"
    /\ postName' = sanitize_post_name(title)
    /\ prefix' = sanitize_title_prefix(title)
    /\ outputHtml' = build_html(title, content, <<>>)
    /\ pc' = "named"
    /\ UNCHANGED <<page, gallery, title, content, galleryImages, galleryDescription,
                   attempts, files, warnings, written, rc>>

NextTitle == ParsePost \/ DeriveNames

SpecTitle == InitTitle /\ [][NextTitle]_vars

-----------------------------------------------------------------------------
(* lines 237-243 on every content tree of at most MaxNodes nodes *)

\* the state of main before line 237, the page parsed and no gallery linked
Parsed(pg, at) ==
    /\ pc = at
    /\ page = pg
    /\ gallery = NoGallery
    /\ title = ParseTitle(pg)
    /\ content = SelectContent(pg)
    /\ galleryImages = <<>>
    /\ galleryDescription = <<>>
    /\ postName = sanitize_post_name(ParseTitle(pg))
    /\ prefix = sanitize_title_prefix(ParseTitle(pg))
    /\ attempts = <<>>
    /\ files = <<>>
    /\ warnings = <<>>
    /\ outputHtml = <<>>
    /\ written = <<>>
    /\ rc = "running"

TreePages ==
    {Page(Og(MyTrip \o SiteSuffix), <<>>, {"article"}, f, <<>>) : f \in Forests}
    \cup {Page(Og(MyTrip \o SiteSuffix), <<>>, {}, <<>>, <<>>)}

InitTree == \E pg \in TreePages : Parsed(pg, "images")

NextTree == ProcessImages \/ StripParagraphClasses \/ BuildHtml \/ DropLeadPlaceholder

SpecTree == InitTree /\ [][NextTree]_vars

-----------------------------------------------------------------------------
(* the whole run on pages of images only, under titles whose prefix could
   meet the gallery prefix *)

NameTitles ==
    {<<"g","a","l","l","e","r","y">>,
     <<"g","a","l","l","e","r","y","_">>,
     <<"g","a","l","l","e","r","y"," ","g","a">>,
     <<"G","a","l","l","e","r","y"," ","1">>,
     <<"i","m","a","g","e">>,
     <<"!","!">>,
     <<"1">>}

BodyImages ==
    {Elem("img", <<>>, <<>>),
     Elem("img", << <<"src", ImgUrl>> >>, <<>>),
     Elem("img", << <<"src", ImgUrlQuery>> >>, <<>>)}

GallerySrcs == {<<"/","a",".","p","n","g">>}

NamePages ==
    {Page(NoOg, <<t>>, {"article"}, imgs, <<GalleryHref>>) :
        t \in NameTitles, imgs \in SeqsUpTo(BodyImages, MaxImages)}

NameGalleries ==
    {[projects |-> <<Project(<<"/","t">>, FALSE, TRUE, srcs, <<>>)>>] :
        srcs \in SeqsUpTo(GallerySrcs, MaxGallery)}

InitNames == \E pg \in NamePages : \E gal \in NameGalleries : Start(pg, gal, "fetch")

SpecNames == InitNames /\ [][Next]_vars

-----------------------------------------------------------------------------
(* Claims about the title: SpecTitle *)

AllBlank(s) == \A i \in DOMAIN s : IsSpace(s[i])

TitleParsed == pc \in {"gallery", "named"}

MyTripName == <<"M","y","_","T","r","i","p">>

\* C1: a page whose og:title has non-empty content gets that content, trimmed,
\* as its title, at most a fixed suffix (of the ten characters line 32 cuts)
\* removed; og:title "My Trip" gives title "My Trip", post name "My_Trip" and a
\* fragment that begins with <h1>My Trip</h1>.
C1_TitleIsOgContent ==
    (TitleParsed /\ page.og.found /\ ~AllBlank(page.og.content)) =>
        /\ \/ title = Strip(page.og.content)
           \/ /\ Len(page.og.content) > OgSuffixLen
              /\ title = Strip(SubSeq(page.og.content, 1, Len(page.og.content) - OgSuffixLen))
        /\ page.og.content = MyTrip => title = MyTrip
        /\ (page.og.content = MyTrip /\ pc = "named") =>
              /\ postName = MyTripName
              /\ StartsWith(outputHtml, <<"<h1", ">">> \o MyTrip \o <<"</h1>">>)

\* the title the metadata gives is empty
MetaTitleEmpty ==
    \/ ~page.og.found
    \/ \A i \in 1..Len(page.og.content) :
          i + OgSuffixLen <= Len(page.og.content) => IsSpace(page.og.content[i])

\* C7: the title is never empty; when the metadata gives no title, it is the
\* text of the page's first h1/h2 if that text is not blank, and "Untitled
\* Post" otherwise, so a page with no metadata title and no heading with text
\* gets exactly "Untitled Post".
C7_TitleNeverEmpty ==
    TitleParsed =>
        LET hs == HeadingTexts(page)
        IN  /\ title # <<>>
            /\ ~AllBlank(title)
            /\ (MetaTitleEmpty /\ \A i \in DOMAIN hs : AllBlank(hs[i])) =>
                  title = DefaultTitle
            /\ (MetaTitleEmpty /\ hs # <<>> /\ ~AllBlank(hs[1])) => title = Strip(hs[1])
            /\ (MetaTitleEmpty /\ hs # <<>> /\ AllBlank(hs[1])) => title = DefaultTitle

\* C7 witness: a metadata title too short to survive, a blank first heading
\* and a second heading with text: the default is the title
C7_Witness ==
    /\ pc = "named"
    /\ page.og.found /\ page.og.content # <<>> /\ MetaTitleEmpty
    /\ Len(page.headings) = 2 /\ AllBlank(page.headings[1]) /\ page.headings[2] = HiText
    /\ title = DefaultTitle

-----------------------------------------------------------------------------
(* Claims about the whole run: Spec *)

GalleryFetchFailed == \E i \in DOMAIN warnings : warnings[i].kind = "gallery_page"

Rendered == pc \in {"resub", "write", "gallery_dl", "return", "done"}

HasToken(s, t) == \E i \in DOMAIN s : s[i] = t

GalleryHeading == <<"<h2", ">", "G","a","l","l","e","r","y", "</h2>">>

\* C6: once the fetch of the linked gallery page has failed (and been
\* logged), the run goes on: nothing is taken from the gallery, no gallery
\* image is downloaded, the fragment has no gallery section, the gallery
\* failure is never the error that ends the run, and a run that ends has
\* written the fragment and returned 0.
C6_GalleryFailureIsolated ==
    GalleryFetchFailed =>
        /\ find_gallery_link(page, BaseUrl) # <<>>
        /\ galleryImages = <<>> /\ galleryDescription = <<>>
        /\ \A i \in DOMAIN attempts : attempts[i].kind # "gallery_image"
        /\ Rendered => /\ ~HasToken(outputHtml, "<hr")
                       /\ ~Contains(outputHtml, GalleryHeading)
                       /\ outputHtml # <<>>
        /\ pc = "aborted" => rc \in {"OSError", "AttributeError"}
        /\ pc \in {"gallery_dl", "return", "done"} => written = outputHtml
        /\ pc = "done" => rc = "0"

\* C6 witness: the gallery page has images and a description, its fetch
\* failed, and the run returned 0 with the post body written
C6_Witness ==
    /\ GalleryFetchFailed
    /\ extract_gallery_images(gallery, find_gallery_link(page, BaseUrl)).images # <<>>
    /\ extract_gallery_images(gallery, find_gallery_link(page, BaseUrl)).description # <<>>
    /\ pc = "done" /\ rc = "0"
    /\ written # <<>>
    /\ \E i \in DOMAIN written : written[i] = "<p"

\* C8: a file that cannot be written ends the run with the error: after a
\* download whose file could not be written the run is aborted on OSError.
C8_WriteErrorsAbort ==
    (\E i \in DOMAIN attempts : attempts[i].outcome = "write_error") =>
        pc = "aborted" /\ rc = "OSError"

-----------------------------------------------------------------------------
(* Claims about the content tree: SpecTree *)

\* the content as parse_post selected it, before line 237
Original == SelectContent(page)

OriginalImages == FindAll(Original, {"img"})

ImagesProcessed == pc \in {"strip", "build", "resub", "write"}

\* C2 as stated: every image of the content yields exactly one call of
\* download_image.
C2_OneAttemptPerImage ==
    ImagesProcessed => Len(attempts) = Len(OriginalImages)

\* the tree with each image, or the paragraph that holds nothing but the
\* image, replaced by the placeholder
RECURSIVE ImagesReplaced(_)
ImagesReplaced(node) ==
    IF node.tag = "img" THEN Placeholder
    ELSE IF node.tag = "p" /\ Len(node.kids) = 1 /\ node.kids[1].tag = "img" THEN Placeholder
    ELSE [node EXCEPT !.kids = [i \in DOMAIN node.kids |-> ImagesReplaced(node.kids[i])]]

\* C2 amended: an image with a source yields exactly one call of
\* download_image (with its 1-based position among the images and its
\* source), an image without a source yields none; and however the downloads
\* end, the content after process_images is the content before it with
\* nothing changed but each image, or the paragraph holding only that image,
\* replaced by the placeholder.
C2_OneAttemptPerSourcedImage ==
    ImagesProcessed =>
        /\ \A i \in DOMAIN OriginalImages :
              LET src == GetAttr(NodeAt(Original, OriginalImages[i]), "src")
                  calls == {k \in DOMAIN attempts : attempts[k].index = i}
              IN  /\ Cardinality(calls) = (IF src # <<>> THEN 1 ELSE 0)
                  /\ \A k \in calls : attempts[k].url = src /\ attempts[k].kind = "image"
        /\ \A k \in DOMAIN attempts : attempts[k].index \in DOMAIN OriginalImages
        /\ \A k \in DOMAIN attempts : \A m \in DOMAIN attempts :
              k < m => attempts[k].index < attempts[m].index
        /\ pc = "strip" => content = ImagesReplaced(Original)

\* C2 witness: an image whose download failed, an image without a source
\* and a text beside them
C2_Witness ==
    /\ pc = "strip"
    /\ Len(OriginalImages) = 2
    /\ Len(attempts) = 1 /\ attempts[1].outcome = "http_error"
    /\ \E i \in DOMAIN content.kids : content.kids[i] = TextNode(HiText)

\* C3: an image whose download failed is left in the tree as it was; only
\* the images downloaded are replaced.
C3_FailedImageKept ==
    ImagesProcessed =>
        \A k \in DOMAIN attempts :
            attempts[k].outcome # "ok" =>
                LET path == OriginalImages[attempts[k].index]
                IN  \E q \in Range(FindAll(content, {"img"})) :
                        q = path /\ NodeAt(content, q) = NodeAt(Original, path)

\* the tree holds no element outside the allow-list of build_html
OnlyAllowed(tree) ==
    \A q \in Range(FindAll(tree, {"img", "div", "h1"})) : FALSE

OpeningTokens == {"<" \o t : t \in AllowedTags}

CountTokens(s, ts) == Cardinality({i \in DOMAIN s : s[i] \in ts})

\* C5: the fragment built from a tree of allow-listed elements only holds,
\* after the <h1>, each of those elements once: as many opening tags as the
\* tree has elements.
C5_EachElementOnce ==
    (pc = "resub" /\ OnlyAllowed(content)) =>
        CountTokens(outputHtml, OpeningTokens) = Len(FindAll(content, AllowedTags))

AllTags == {"#text", "img", "p", "blockquote", "div", "h1", "h2", "article", "main", "body"}

\* C9: strip_paragraph_classes changes nothing but the attributes of the
\* paragraphs, which lose class and keep the rest in order; a second pass
\* changes nothing more.
C9_StripOnlyParagraphClasses ==
    [][pc = "strip" =>
        /\ FindAll(content', AllTags) = FindAll(content, AllTags)
        /\ content'.tag = content.tag /\ content'.attrs = content.attrs
        /\ \A q \in Range(FindAll(content, AllTags)) :
              LET old == NodeAt(content, q)
                  new == NodeAt(content', q)
                  NotClass(a) == a[1] # "class"
              IN  /\ new.tag = old.tag /\ new.text = old.text
                  /\ new.attrs = IF old.tag = "p" THEN SelectSeq(old.attrs, NotClass)
                                 ELSE old.attrs
        /\ strip_paragraph_classes(content') = content']_vars

\* C9 witness: a paragraph that had a class and another attribute, beside
\* an element of another type that has a class, after the pass
C9_Witness ==
    /\ pc = "build"
    /\ \E q \in Range(FindAll(Original, {"p"})) :
          HasAttr(NodeAt(Original, q), "class") /\ HasAttr(NodeAt(Original, q), "id")
    /\ \E q \in Range(FindAll(content, {"div"})) : HasAttr(NodeAt(content, q), "class")
    /\ \E q \in Range(FindAll(content, {"p"})) : HasAttr(NodeAt(content, q), "id")

\* parts without its first element equal to x
RemoveFirst(parts, x) ==
    IF \E i \in DOMAIN parts : parts[i] = x
    THEN LET i == CHOOSE i \in DOMAIN parts : parts[i] = x /\ \A j \in 1..(i - 1) : parts[j] # x
         IN  SubSeq(parts, 1, i - 1) \o SubSeq(parts, i + 1, Len(parts))
    ELSE parts

\* C10: after the lead-image rule the fragment is the newline-joined parts
\* of build_html without the first placeholder paragraph, and nothing else
\* is changed.
C10_OnlyFirstPlaceholderDropped ==
    pc = "write" =>
        outputHtml = Join(RemoveFirst(HtmlParts(title, content, galleryDescription),
                                      PlaceholderParagraph),
                          <<"\n">>)

-----------------------------------------------------------------------------
(* Claims about the file names: SpecNames *)

\* C4: no two files written in one run have the same name, whatever the
\* title, whichever downloads fail and whichever images have no source.
C4_FileNamesDistinct ==
    \A i \in DOMAIN files : \A j \in DOMAIN files : i # j => files[i] # files[j]

\* C4 witness: a title whose prefix begins like the gallery prefix, an image
\* without a source or a failed download before a written post image, and
\* two written gallery images
C4_Witness ==
    /\ pc = "done"
    /\ StartsWith(prefix, <<"g","a","l","l","e","r","y">>)
    /\ \E k \in DOMAIN attempts :
          attempts[k].kind = "image" /\ attempts[k].outcome = "ok" /\ attempts[k].index = 2
    /\ Cardinality({k \in DOMAIN attempts :
                       attempts[k].kind = "gallery_image" /\ attempts[k].outcome = "ok"}) = 2
    /\ Len(files) = 3
====
